---- MODULE Spec2Model ----
(***************************************************************************)
(* The media-segment tags of hls_m3u8 (src/src/tag/media_segment.rs):      *)
(* their constructors, Display (render), FromStr (parse) and               *)
(* requires_version, over playlist lines held as TLA+ strings.             *)
(*                                                                         *)
(* The attribute-list parser and the scalar codecs (attribute.rs,          *)
(* types.rs) are not part of src/; they are modelled from the              *)
(* specification's sections 4.1 and 4.2 and from the lines the tests of    *)
(* media_segment.rs pin down.                                              *)
(***************************************************************************)
EXTENDS Integers, Sequences, FiniteSets, TLC

VARIABLES
    pc,        \* position of the scenario: idle, built, rendered, fed, appended, parsed
    kind,      \* the tag type whose operations are applied
    tag,       \* Option: the tag value built by a constructor / struct literal
    line,      \* the playlist line at hand (rendered or handed in by the caller)
    parsed,    \* Option: the Result of the last FromStr
    rendered,  \* Option: the text Display gives for the parsed value
    version,   \* Option: the last result of requires_version
    base       \* Option: line and Result before a pair was appended to the line

vars == <<pc, kind, tag, line, parsed, rendered, version, base>>

----------------------------------------------------------------------------
(* Option and Result *)

NONE == [some |-> FALSE]
Some(x) == [some |-> TRUE, v |-> x]
IsSome(o) == o.some

Ok(x) == [ok |-> TRUE, v |-> x]
InvalidInput == [ok |-> FALSE, err |-> "InvalidInput"]

----------------------------------------------------------------------------
(* Text primitives (std::str) *)

Ch(s, i) == SubSeq(s, i, i)

StartsWith(s, p) == Len(s) >= Len(p) /\ SubSeq(s, 1, Len(p)) = p

\* s.split_at(n).1
AfterSplitAt(s, n) == SubSeq(s, n + 1, Len(s))

\* index of the first occurrence of the character c in s, 0 when there is none
RECURSIVE IndexFrom(_, _, _)
IndexFrom(s, c, i) ==
    IF i > Len(s) THEN 0 ELSE IF Ch(s, i) = c THEN i ELSE IndexFrom(s, c, i + 1)

IndexOf(s, c) == IndexFrom(s, c, 1)

Digits == <<"0", "1", "2", "3", "4", "5", "6", "7", "8", "9">>

IsDigit(c) == \E d \in 1..10 : Digits[d] = c

DigitVal(c) == (CHOOSE d \in 1..10 : Digits[d] = c) - 1

AllDigits(s) == \A i \in 1..Len(s) : IsDigit(Ch(s, i))

RECURSIVE ToDec(_)
ToDec(n) == IF n < 10 THEN Digits[n + 1] ELSE ToDec(n \div 10) \o Digits[(n % 10) + 1]

RECURSIVE DecVal(_)
DecVal(s) == IF s = "" THEN 0 ELSE DecVal(SubSeq(s, 1, Len(s) - 1)) * 10 + DigitVal(Ch(s, Len(s)))

\* n written with at least w digits, zero padded on the left
RECURSIVE PadLeft(_, _)
PadLeft(s, w) == IF Len(s) >= w THEN s ELSE PadLeft("0" \o s, w)

RECURSIVE PadRight(_, _)
PadRight(s, w) == IF Len(s) >= w THEN s ELSE PadRight(s \o "0", w)

RECURSIVE TrimTrailingZeros(_)
TrimTrailingZeros(s) ==
    IF s # "" /\ Ch(s, Len(s)) = "0" THEN TrimTrailingZeros(SubSeq(s, 1, Len(s) - 1)) ELSE s

----------------------------------------------------------------------------
(* Scalar codecs: attribute.rs and types.rs, after section 4.1 of the      *)
(* specification.                                                          *)

Quote == "\""

\* QuotedString::from_str: text delimited by a pair of quotes, none inside
QuotedString_from_str(s) ==
    IF /\ Len(s) >= 2
       /\ Ch(s, 1) = Quote
       /\ Ch(s, Len(s)) = Quote
       /\ IndexOf(SubSeq(s, 2, Len(s) - 1), Quote) = 0
    THEN Ok(SubSeq(s, 2, Len(s) - 1))
    ELSE InvalidInput

\* Display for QuotedString: the text wrapped in quotes verbatim
QuotedString_fmt(q) == Quote \o q \o Quote

\* M3u8String::new: free text of one line, no control characters
M3u8String_new(s) ==
    IF \E i \in 1..Len(s) : Ch(s, i) \in {"\t", "\r", "\n"} THEN InvalidInput ELSE Ok(s)

\* std::time::Duration
Duration(secs, nanos) == [secs |-> secs, nanos |-> nanos]

\* DecimalFloatingPoint::from_str followed by to_duration: an ASCII decimal
\* number without exponent, whole plus fractional seconds to the nanosecond
DecimalFloatingPoint_to_duration(s) ==
    LET dot   == IndexOf(s, ".")
        whole == IF dot = 0 THEN s ELSE SubSeq(s, 1, dot - 1)
        frac  == IF dot = 0 THEN "" ELSE SubSeq(s, dot + 1, Len(s))
    IN IF AllDigits(whole) /\ AllDigits(frac) /\ Len(whole) + Len(frac) > 0
       THEN Ok(Duration(DecVal(whole), DecVal(SubSeq(PadRight(frac, 9), 1, 9))))
       ELSE InvalidInput

\* DecimalFloatingPoint::from_duration followed by Display: the minimal
\* decimal text that reconstructs the duration
DecimalFloatingPoint_from_duration(d) ==
    ToDec(d.secs) \o
    (IF d.nanos = 0 THEN "" ELSE "." \o TrimTrailingZeros(PadLeft(ToDec(d.nanos), 9)))

\* types::ByteRange
ByteRange(length, start) == [length |-> length, start |-> start]

\* ByteRange::from_str: LENGTH or LENGTH@START
ByteRange_from_str(s) ==
    LET at  == IndexOf(s, "@")
        len == IF at = 0 THEN s ELSE SubSeq(s, 1, at - 1)
        st  == IF at = 0 THEN "" ELSE SubSeq(s, at + 1, Len(s))
    IN IF len # "" /\ AllDigits(len) /\ (at = 0 \/ (st # "" /\ AllDigits(st)))
       THEN Ok(ByteRange(DecVal(len), IF at = 0 THEN NONE ELSE Some(DecVal(st))))
       ELSE InvalidInput

\* Display for ByteRange: @START is left out when there is no start
ByteRange_fmt(r) ==
    ToDec(r.length) \o (IF IsSome(r.start) THEN "@" \o ToDec(r.start.v) ELSE "")

HexLower == <<"0", "1", "2", "3", "4", "5", "6", "7", "8", "9", "a", "b", "c", "d", "e", "f">>
HexUpper == <<"0", "1", "2", "3", "4", "5", "6", "7", "8", "9", "A", "B", "C", "D", "E", "F">>

IsHexDigit(c) == \E d \in 1..16 : HexLower[d] = c \/ HexUpper[d] = c

HexVal(c) == (CHOOSE d \in 1..16 : HexLower[d] = c \/ HexUpper[d] = c) - 1

RECURSIVE HexBytes(_)
HexBytes(s) ==
    IF s = "" THEN <<>>
    ELSE IF Len(s) = 1 THEN <<HexVal(s)>>
    ELSE <<HexVal(Ch(s, 1)) * 16 + HexVal(Ch(s, 2))>> \o HexBytes(SubSeq(s, 3, Len(s)))

\* HexadecimalSequence::from_str: 0x or 0X, then a run of hexadecimal digits
HexadecimalSequence_from_str(s) ==
    IF /\ (StartsWith(s, "0x") \/ StartsWith(s, "0X"))
       /\ \A i \in 3..Len(s) : IsHexDigit(Ch(s, i))
    THEN Ok(HexBytes(AfterSplitAt(s, 2)))
    ELSE InvalidInput

RECURSIVE HexText(_)
HexText(bytes) ==
    IF bytes = <<>> THEN ""
    ELSE HexLower[(Head(bytes) \div 16) + 1] \o HexLower[(Head(bytes) % 16) + 1]
         \o HexText(Tail(bytes))

\* Display for HexadecimalSequence: 0x and lowercase digits
HexadecimalSequence_fmt(bytes) == "0x" \o HexText(bytes)

\* types::Yes: the only value of END-ON-NEXT
Yes_from_str(s) == IF s = "YES" THEN Ok("YES") ELSE InvalidInput

Yes_fmt(y) == "YES"

\* chrono::NaiveDate
NaiveDate(y, m, d) == [y |-> y, m |-> m, d |-> d]

IsLeapYear(y) == (y % 4 = 0 /\ y % 100 # 0) \/ y % 400 = 0

DaysInMonth(y, m) ==
    IF m = 2 THEN (IF IsLeapYear(y) THEN 29 ELSE 28)
    ELSE IF m \in {4, 6, 9, 11} THEN 30 ELSE 31

\* NaiveDate::parse_from_str(s, "%Y-%m-%d")
NaiveDate_parse_from_str(s) ==
    LET i  == IndexOf(s, "-")
        r  == AfterSplitAt(s, i)
        j  == IndexOf(r, "-")
        ys == SubSeq(s, 1, i - 1)
        ms == SubSeq(r, 1, j - 1)
        ds == AfterSplitAt(r, j)
    IN IF /\ i > 0 /\ j > 0
          /\ ys # "" /\ AllDigits(ys) /\ Len(ys) <= 4
          /\ Len(ms) \in {1, 2} /\ AllDigits(ms)
          /\ Len(ds) \in {1, 2} /\ AllDigits(ds)
          /\ DecVal(ms) \in 1..12
          /\ DecVal(ds) \in 1..DaysInMonth(DecVal(ys), DecVal(ms))
       THEN Ok(NaiveDate(DecVal(ys), DecVal(ms), DecVal(ds)))
       ELSE InvalidInput

\* date.format("%Y-%m-%d").to_string()
NaiveDate_format(d) ==
    PadLeft(ToDec(d.y), 4) \o "-" \o PadLeft(ToDec(d.m), 2) \o "-" \o PadLeft(ToDec(d.d), 2)

\* {:?} of a String without characters that need escaping
String_debug_fmt(s) == Quote \o s \o Quote

----------------------------------------------------------------------------
(* Attribute lists: attribute.rs, after section 4.2 of the specification.  *)
(* The suffix of a tag is split on its top-level commas; every piece is a  *)
(* pair that parses, or fails, on its own.                                 *)

NameChars == "ABCDEFGHIJKLMNOPQRSTUVWXYZ0123456789-"

\* an AttributeName of RFC 8216: a non-empty run of [A-Z0-9-]
IsAttributeName(k) == k # "" /\ \A i \in 1..Len(k) : IndexOf(NameChars, Ch(k, i)) > 0

\* position of the first comma of s outside a quoted string, from position i on;
\* Len(s) + 1 when there is none
RECURSIVE TopLevelComma(_, _, _)
TopLevelComma(s, i, inQuote) ==
    IF i > Len(s) THEN i
    ELSE IF Ch(s, i) = Quote THEN TopLevelComma(s, i + 1, ~inQuote)
    ELSE IF Ch(s, i) = "," /\ ~inQuote THEN i
    ELSE TopLevelComma(s, i + 1, inQuote)

QuotesTerminated(s) == Cardinality({i \in 1..Len(s) : Ch(s, i) = Quote}) % 2 = 0

\* one KEY=VALUE piece: (key, raw value), or InvalidInput for a malformed
\* KEY= or an unterminated quote
AttributePair(piece) ==
    LET eq == IndexOf(piece, "=")
    IN IF eq > 0 /\ IsAttributeName(SubSeq(piece, 1, eq - 1)) /\ QuotesTerminated(piece)
       THEN Ok([key |-> SubSeq(piece, 1, eq - 1), value |-> AfterSplitAt(piece, eq)])
       ELSE InvalidInput

RECURSIVE SplitPairs(_)
SplitPairs(s) ==
    LET c == TopLevelComma(s, 1, FALSE)
    IN <<AttributePair(SubSeq(s, 1, c - 1))>>
       \o (IF c > Len(s) THEN <<>> ELSE SplitPairs(AfterSplitAt(s, c)))

\* AttributePairs::parse(input), as the sequence the iterator yields
AttributePairs_parse(input) == IF input = "" THEN <<>> ELSE SplitPairs(input)

\* `field = Some(track!(value.parse())?)` on the locals of a from_str loop
SetField(acc, field, res) ==
    IF res.ok THEN Ok([acc EXCEPT ![field] = Some(res.v)]) ELSE InvalidInput

----------------------------------------------------------------------------
(* types::ProtocolVersion *)

V1 == 1
V2 == 2
V3 == 3
V4 == 4
V5 == 5
V6 == 6

----------------------------------------------------------------------------
(* types::DecryptionKey, as the tests of ExtXKey use it *)

EncryptionMethods == {"AES-128", "SAMPLE-AES"}

DecryptionKey(method, uri, iv, key_format, key_format_versions) ==
    [method |-> method, uri |-> uri, iv |-> iv, key_format |-> key_format,
     key_format_versions |-> key_format_versions]

EncryptionMethod_from_str(s) == IF s \in EncryptionMethods THEN Ok(s) ELSE InvalidInput

\* DecryptionKey::requires_version
DecryptionKey_requires_version(k) ==
    IF IsSome(k.key_format) \/ IsSome(k.key_format_versions) THEN V5
    ELSE IF IsSome(k.iv) THEN V2
    ELSE V1

\* Display for DecryptionKey
DecryptionKey_fmt(k) ==
    "METHOD=" \o k.method
    \o ",URI=" \o QuotedString_fmt(k.uri)
    \o (IF IsSome(k.iv) THEN ",IV=" \o HexadecimalSequence_fmt(k.iv.v) ELSE "")
    \o (IF IsSome(k.key_format) THEN ",KEYFORMAT=" \o QuotedString_fmt(k.key_format.v) ELSE "")
    \o (IF IsSome(k.key_format_versions)
        THEN ",KEYFORMATVERSIONS=" \o QuotedString_fmt(k.key_format_versions.v) ELSE "")

RECURSIVE DecryptionKey_loop(_, _)
DecryptionKey_loop(attrs, acc) ==
    IF attrs = <<>> THEN Ok(acc)
    ELSE IF ~Head(attrs).ok THEN InvalidInput
    ELSE LET key   == Head(attrs).v.key
             value == Head(attrs).v.value
             next  == CASE key = "METHOD" -> SetField(acc, "method", EncryptionMethod_from_str(value))
                        [] key = "URI" -> SetField(acc, "uri", QuotedString_from_str(value))
                        [] key = "IV" -> SetField(acc, "iv", HexadecimalSequence_from_str(value))
                        [] key = "KEYFORMAT" ->
                               SetField(acc, "key_format", QuotedString_from_str(value))
                        [] key = "KEYFORMATVERSIONS" ->
                               SetField(acc, "key_format_versions", QuotedString_from_str(value))
                        [] OTHER -> Ok(acc)
         IN IF next.ok THEN DecryptionKey_loop(Tail(attrs), next.v) ELSE InvalidInput

\* DecryptionKey::from_str
DecryptionKey_from_str(s) ==
    LET r == DecryptionKey_loop(AttributePairs_parse(s),
                 [method |-> NONE, uri |-> NONE, iv |-> NONE, key_format |-> NONE,
                  key_format_versions |-> NONE])
    IN IF r.ok /\ IsSome(r.v.method) /\ IsSome(r.v.uri)
       THEN Ok(DecryptionKey(r.v.method.v, r.v.uri.v, r.v.iv, r.v.key_format,
                             r.v.key_format_versions))
       ELSE InvalidInput

----------------------------------------------------------------------------
(* 4.3.2.1 EXTINF *)

ExtInf_PREFIX == "#EXTINF:"

ExtInf(duration, title) == [duration |-> duration, title |-> title]

ExtInf_new(duration) == ExtInf(duration, NONE)

ExtInf_with_title(duration, title) == ExtInf(duration, Some(title))

\* a variant that takes a title for a reason to require V3
ExtInf_requires_version_titled(t) ==
    IF t.duration.nanos = 0 /\ ~IsSome(t.title) THEN V1 ELSE V3

ExtInf_requires_version(t) == IF t.duration.nanos = 0 THEN V1 ELSE V3

\* Display for the f64 `(as_secs() as f64) + (subsec_nanos() as f64 / 1e9)`.
\* An f64 carries 53 bits: from 2^26 seconds up to 2^27 its values are 2^-26 s
\* (14.9 ns) apart, so that up to 7 ns the sum is the whole number of seconds.
\* A duration of at most 15 significant decimal digits is written as the
\* shortest decimal that gives the f64 back, which is its own decimal text.
\* The durations drawn by the scenarios are of these two kinds.
F64_seconds_fmt(d) ==
    IF d.secs >= 67108864 /\ d.secs < 134217728 /\ d.nanos <= 7
    THEN ToDec(d.secs)
    ELSE ToDec(d.secs)
         \o (IF d.nanos = 0 THEN "" ELSE "." \o TrimTrailingZeros(PadLeft(ToDec(d.nanos), 9)))

ExtInf_fmt(t) ==
    ExtInf_PREFIX
    \o F64_seconds_fmt(t.duration)
    \o (IF IsSome(t.title) THEN "," \o t.title.v ELSE "")

\* a variant that does not look at the prefix before it cuts it off
ExtInf_from_str_any_prefix(s) ==
    LET rest    == AfterSplitAt(s, Len(ExtInf_PREFIX))
        comma   == IndexOf(rest, ",")
        first   == IF comma = 0 THEN rest ELSE SubSeq(rest, 1, comma - 1)
        seconds == DecimalFloatingPoint_to_duration(first)
        title   == IF comma = 0 THEN Ok(NONE)
                   ELSE LET m == M3u8String_new(AfterSplitAt(rest, comma))
                        IN IF m.ok THEN Ok(Some(m.v)) ELSE InvalidInput
    IN IF ~seconds.ok THEN InvalidInput
       ELSE IF ~title.ok THEN InvalidInput
       ELSE Ok(ExtInf(seconds.v, title.v))

\* a variant that splits at every comma and takes the second piece for the title
ExtInf_from_str_split_all(s) ==
    IF ~StartsWith(s, ExtInf_PREFIX) THEN InvalidInput
    ELSE LET rest    == AfterSplitAt(s, Len(ExtInf_PREFIX))
             comma   == IndexOf(rest, ",")
             first   == IF comma = 0 THEN rest ELSE SubSeq(rest, 1, comma - 1)
             seconds == DecimalFloatingPoint_to_duration(first)
             after   == AfterSplitAt(rest, comma)
             second  == IF IndexOf(after, ",") = 0 THEN after
                        ELSE SubSeq(after, 1, IndexOf(after, ",") - 1)
             title   == IF comma = 0 THEN Ok(NONE)
                        ELSE LET m == M3u8String_new(second)
                             IN IF m.ok THEN Ok(Some(m.v)) ELSE InvalidInput
         IN IF ~seconds.ok THEN InvalidInput
            ELSE IF ~title.ok THEN InvalidInput
            ELSE Ok(ExtInf(seconds.v, title.v))

ExtInf_from_str(s) ==
    IF ~StartsWith(s, ExtInf_PREFIX) THEN InvalidInput
    ELSE LET rest    == AfterSplitAt(s, Len(ExtInf_PREFIX))
             comma   == IndexOf(rest, ",")
             first   == IF comma = 0 THEN rest ELSE SubSeq(rest, 1, comma - 1)
             seconds == DecimalFloatingPoint_to_duration(first)
             title   == IF comma = 0 THEN Ok(NONE)
                        ELSE LET m == M3u8String_new(AfterSplitAt(rest, comma))
                             IN IF m.ok THEN Ok(Some(m.v)) ELSE InvalidInput
         IN IF ~seconds.ok THEN InvalidInput
            ELSE IF ~title.ok THEN InvalidInput
            ELSE Ok(ExtInf(seconds.v, title.v))

----------------------------------------------------------------------------
(* 4.3.2.2 EXT-X-BYTERANGE *)

ExtXByteRange_PREFIX == "#EXT-X-BYTERANGE:"

ExtXByteRange_new(range) == [range |-> range]

ExtXByteRange_requires_version(t) == V4

ExtXByteRange_fmt(t) == ExtXByteRange_PREFIX \o ByteRange_fmt(t.range)

ExtXByteRange_from_str(s) ==
    IF ~StartsWith(s, ExtXByteRange_PREFIX) THEN InvalidInput
    ELSE LET range == ByteRange_from_str(AfterSplitAt(s, Len(ExtXByteRange_PREFIX)))
         IN IF range.ok THEN Ok([range |-> range.v]) ELSE InvalidInput

----------------------------------------------------------------------------
(* 4.3.2.3 EXT-X-DISCONTINUITY *)

ExtXDiscontinuity_PREFIX == "#EXT-X-DISCONTINUITY"

ExtXDiscontinuity == [unit |-> "ExtXDiscontinuity"]

ExtXDiscontinuity_requires_version(t) == V1

ExtXDiscontinuity_fmt(t) == ExtXDiscontinuity_PREFIX

\* a variant that tests the prefix as the other tags do
ExtXDiscontinuity_from_str_prefix(s) ==
    IF StartsWith(s, ExtXDiscontinuity_PREFIX) THEN Ok(ExtXDiscontinuity) ELSE InvalidInput

ExtXDiscontinuity_from_str(s) ==
    IF s = ExtXDiscontinuity_PREFIX THEN Ok(ExtXDiscontinuity) ELSE InvalidInput

----------------------------------------------------------------------------
(* 4.3.2.4 EXT-X-KEY *)

ExtXKey_PREFIX == "#EXT-X-KEY:"

ExtXKey_new(key) == [key |-> Some(key)]

ExtXKey_new_without_key == [key |-> NONE]

\* a variant that does not ask the key
ExtXKey_requires_version_flat(t) == V1

ExtXKey_requires_version(t) ==
    IF IsSome(t.key) THEN DecryptionKey_requires_version(t.key.v) ELSE V1

ExtXKey_fmt(t) ==
    ExtXKey_PREFIX \o (IF IsSome(t.key) THEN DecryptionKey_fmt(t.key.v) ELSE "METHOD=NONE")

\* a variant of the loop below that lets KEYFORMATVERSIONS pass
RECURSIVE ExtXKey_none_loop_lax(_)
ExtXKey_none_loop_lax(attrs) ==
    IF attrs = <<>> THEN Ok([key |-> NONE])
    ELSE IF ~Head(attrs).ok THEN InvalidInput
    ELSE IF Head(attrs).v.key = "URI" THEN InvalidInput
    ELSE IF Head(attrs).v.key = "IV" THEN InvalidInput
    ELSE IF Head(attrs).v.key = "KEYFORMAT" THEN InvalidInput
    ELSE ExtXKey_none_loop_lax(Tail(attrs))

\* the loop over the pairs of a METHOD=NONE line
RECURSIVE ExtXKey_none_loop(_)
ExtXKey_none_loop(attrs) ==
    IF attrs = <<>> THEN Ok([key |-> NONE])
    ELSE IF ~Head(attrs).ok THEN InvalidInput
    ELSE IF Head(attrs).v.key = "URI" THEN InvalidInput
    ELSE IF Head(attrs).v.key = "IV" THEN InvalidInput
    ELSE IF Head(attrs).v.key = "KEYFORMAT" THEN InvalidInput
    ELSE IF Head(attrs).v.key = "KEYFORMATVERSIONS" THEN InvalidInput
    ELSE ExtXKey_none_loop(Tail(attrs))

ExtXKey_from_str(s) ==
    IF ~StartsWith(s, ExtXKey_PREFIX) THEN InvalidInput
    ELSE LET suffix == AfterSplitAt(s, Len(ExtXKey_PREFIX))
             attrs  == AttributePairs_parse(suffix)
         IN IF \E i \in 1..Len(attrs) : attrs[i] = Ok([key |-> "METHOD", value |-> "NONE"])
            THEN ExtXKey_none_loop(attrs)
            ELSE LET k == DecryptionKey_from_str(suffix)
                 IN IF k.ok THEN Ok([key |-> Some(k.v)]) ELSE InvalidInput

----------------------------------------------------------------------------
(* 4.3.2.5 EXT-X-MAP *)

ExtXMap_PREFIX == "#EXT-X-MAP:"

ExtXMap_new(uri) == [uri |-> uri, range |-> NONE]

ExtXMap_with_range(uri, range) == [uri |-> uri, range |-> Some(range)]

ExtXMap_requires_version(t) == V6

ExtXMap_fmt(t) ==
    ExtXMap_PREFIX
    \o "URI=" \o QuotedString_fmt(t.uri)
    \o (IF IsSome(t.range) THEN ",BYTERANGE=" \o ByteRange_fmt(t.range.v) ELSE "")

\* a variant of the loop below that rejects a name it does not know
RECURSIVE ExtXMap_loop_strict(_, _)
ExtXMap_loop_strict(attrs, acc) ==
    IF attrs = <<>> THEN Ok(acc)
    ELSE IF ~Head(attrs).ok THEN InvalidInput
    ELSE LET key   == Head(attrs).v.key
             value == Head(attrs).v.value
             next  == CASE key = "URI" -> SetField(acc, "uri", QuotedString_from_str(value))
                        [] key = "BYTERANGE" -> SetField(acc, "range", ByteRange_from_str(value))
                        [] OTHER -> InvalidInput
         IN IF next.ok THEN ExtXMap_loop_strict(Tail(attrs), next.v) ELSE InvalidInput

RECURSIVE ExtXMap_loop(_, _)
ExtXMap_loop(attrs, acc) ==
    IF attrs = <<>> THEN Ok(acc)
    ELSE IF ~Head(attrs).ok THEN InvalidInput
    ELSE LET key   == Head(attrs).v.key
             value == Head(attrs).v.value
             next  == CASE key = "URI" -> SetField(acc, "uri", QuotedString_from_str(value))
                        [] key = "BYTERANGE" -> SetField(acc, "range", ByteRange_from_str(value))
                        [] OTHER -> Ok(acc)
         IN IF next.ok THEN ExtXMap_loop(Tail(attrs), next.v) ELSE InvalidInput

ExtXMap_from_str(s) ==
    IF ~StartsWith(s, ExtXMap_PREFIX) THEN InvalidInput
    ELSE LET r == ExtXMap_loop(AttributePairs_parse(AfterSplitAt(s, Len(ExtXMap_PREFIX))),
                               [uri |-> NONE, range |-> NONE])
         IN IF ~r.ok THEN InvalidInput
            ELSE IF ~IsSome(r.v.uri) THEN InvalidInput
            ELSE Ok([uri |-> r.v.uri.v, range |-> r.v.range])

----------------------------------------------------------------------------
(* 4.3.2.6 EXT-X-PROGRAM-DATE-TIME *)

ExtXProgramDateTime_PREFIX == "#EXT-X-PROGRAM-DATE-TIME:"

\* chrono::DateTime<FixedOffset>: a date, a time of day and an offset in
\* minutes east of UTC
DateTime(date, h, mi, sec, nanos, offset) ==
    [date |-> date, h |-> h, mi |-> mi, sec |-> sec, nanos |-> nanos, offset |-> offset]

RECURSIVE LeadingDigits(_)
LeadingDigits(s) ==
    IF s # "" /\ IsDigit(Ch(s, 1)) THEN 1 + LeadingDigits(AfterSplitAt(s, 1)) ELSE 0

TwoDigits(s) == Len(s) = 2 /\ AllDigits(s)

\* Z, or a sign and HH:MM
FixedOffset_from_str(z) ==
    IF z = "Z" THEN Ok(0)
    ELSE IF /\ Len(z) = 6
            /\ Ch(z, 1) \in {"+", "-"}
            /\ TwoDigits(SubSeq(z, 2, 3))
            /\ Ch(z, 4) = ":"
            /\ TwoDigits(SubSeq(z, 5, 6))
            /\ DecVal(SubSeq(z, 2, 3)) < 24
            /\ DecVal(SubSeq(z, 5, 6)) < 60
    THEN Ok((IF Ch(z, 1) = "-" THEN -1 ELSE 1)
            * (DecVal(SubSeq(z, 2, 3)) * 60 + DecVal(SubSeq(z, 5, 6))))
    ELSE InvalidInput

\* str::parse::<DateTime<FixedOffset>>(): date, T, time, optional fraction, offset
DateTime_from_str(s) ==
    LET date == NaiveDate_parse_from_str(SubSeq(s, 1, 10))
        rest == AfterSplitAt(s, 19)
        nfr  == IF StartsWith(rest, ".") THEN LeadingDigits(AfterSplitAt(rest, 1)) ELSE 0
        frac == IF nfr = 0 THEN "" ELSE SubSeq(rest, 2, nfr + 1)
        zone == FixedOffset_from_str(IF nfr = 0 THEN rest ELSE AfterSplitAt(rest, nfr + 1))
    IN IF /\ Len(s) >= 20
          /\ date.ok
          /\ Ch(s, 11) = "T"
          /\ TwoDigits(SubSeq(s, 12, 13)) /\ Ch(s, 14) = ":"
          /\ TwoDigits(SubSeq(s, 15, 16)) /\ Ch(s, 17) = ":"
          /\ TwoDigits(SubSeq(s, 18, 19))
          /\ DecVal(SubSeq(s, 12, 13)) < 24
          /\ DecVal(SubSeq(s, 15, 16)) < 60
          /\ DecVal(SubSeq(s, 18, 19)) < 60
          /\ (StartsWith(rest, ".") => nfr > 0)
          /\ zone.ok
       THEN Ok(DateTime(date.v, DecVal(SubSeq(s, 12, 13)), DecVal(SubSeq(s, 15, 16)),
                        DecVal(SubSeq(s, 18, 19)), DecVal(SubSeq(PadRight(frac, 9), 1, 9)),
                        zone.v))
       ELSE InvalidInput

\* the fraction of a second as to_rfc3339 writes it: none, or 3, 6 or 9 digits
Rfc3339_fraction(nanos) ==
    IF nanos = 0 THEN ""
    ELSE IF nanos % 1000000 = 0 THEN "." \o PadLeft(ToDec(nanos \div 1000000), 3)
    ELSE IF nanos % 1000 = 0 THEN "." \o PadLeft(ToDec(nanos \div 1000), 6)
    ELSE "." \o PadLeft(ToDec(nanos), 9)

\* DateTime::to_rfc3339
DateTime_to_rfc3339(t) ==
    LET off == IF t.offset < 0 THEN -t.offset ELSE t.offset
    IN NaiveDate_format(t.date) \o "T"
       \o PadLeft(ToDec(t.h), 2) \o ":" \o PadLeft(ToDec(t.mi), 2) \o ":"
       \o PadLeft(ToDec(t.sec), 2) \o Rfc3339_fraction(t.nanos)
       \o (IF t.offset < 0 THEN "-" ELSE "+")
       \o PadLeft(ToDec(off \div 60), 2) \o ":" \o PadLeft(ToDec(off % 60), 2)

ExtXProgramDateTime_new(date_time) == [date_time |-> date_time]

ExtXProgramDateTime_requires_version(t) == V1

ExtXProgramDateTime_fmt(t) == ExtXProgramDateTime_PREFIX \o DateTime_to_rfc3339(t.date_time)

ExtXProgramDateTime_from_str(s) ==
    IF ~StartsWith(s, ExtXProgramDateTime_PREFIX) THEN InvalidInput
    ELSE LET dt == DateTime_from_str(AfterSplitAt(s, Len(ExtXProgramDateTime_PREFIX)))
         IN IF dt.ok THEN Ok([date_time |-> dt.v]) ELSE InvalidInput

----------------------------------------------------------------------------
(* 4.3.2.7 EXT-X-DATERANGE *)

ExtXDateRange_PREFIX == "#EXT-X-DATERANGE:"

\* BTreeMap<String, String>: a function from its keys; iteration is by key in
\* the byte order of str
BTreeMap_new == [k \in {} |-> ""]

BTreeMap_insert(m, k, v) == [x \in (DOMAIN m) \cup {k} |-> IF x = k THEN v ELSE m[x]]

AsciiOrder == "\"+,-.0123456789:=@ABCDEFGHIJKLMNOPQRSTUVWXYZ_abcdefghijklmnopqrstuvwxyz"

RECURSIVE StrLess(_, _)
StrLess(a, b) ==
    IF b = "" THEN FALSE
    ELSE IF a = "" THEN TRUE
    ELSE LET x == IndexOf(AsciiOrder, Ch(a, 1))
             y == IndexOf(AsciiOrder, Ch(b, 1))
         IN x < y \/ (x = y /\ StrLess(AfterSplitAt(a, 1), AfterSplitAt(b, 1)))

RECURSIVE BTreeMap_keys(_)
BTreeMap_keys(ks) ==
    IF ks = {} THEN <<>>
    ELSE LET first == CHOOSE k \in ks : \A j \in ks \ {k} : StrLess(k, j)
         IN <<first>> \o BTreeMap_keys(ks \ {first})

\* the struct literal: every field is pub
ExtXDateRange(id, class, start_date, end_date, duration, planned_duration, scte35_cmd, scte35_out, scte35_in, end_on_next, client_attributes) ==
    [id |-> id, class |-> class, start_date |-> start_date, end_date |-> end_date,
     duration |-> duration, planned_duration |-> planned_duration,
     scte35_cmd |-> scte35_cmd, scte35_out |-> scte35_out, scte35_in |-> scte35_in,
     end_on_next |-> end_on_next, client_attributes |-> client_attributes]

ExtXDateRange_requires_version(t) == V1

RECURSIVE ClientAttributes_fmt(_, _)
ClientAttributes_fmt(m, ks) ==
    IF ks = <<>> THEN ""
    ELSE "," \o Head(ks) \o "=" \o m[Head(ks)] \o ClientAttributes_fmt(m, Tail(ks))

ExtXDateRange_fmt(t) ==
    ExtXDateRange_PREFIX
    \o "ID=" \o QuotedString_fmt(t.id)
    \o (IF IsSome(t.class) THEN ",CLASS=" \o QuotedString_fmt(t.class.v) ELSE "")
    \o ",START_DATE=" \o String_debug_fmt(NaiveDate_format(t.start_date))
    \o (IF IsSome(t.end_date)
        THEN ",END_DATE=" \o String_debug_fmt(NaiveDate_format(t.end_date.v)) ELSE "")
    \o (IF IsSome(t.duration)
        THEN ",DURATION=" \o DecimalFloatingPoint_from_duration(t.duration.v) ELSE "")
    \o (IF IsSome(t.planned_duration)
        THEN ",PLANNED_DURATION=" \o DecimalFloatingPoint_from_duration(t.planned_duration.v)
        ELSE "")
    \o (IF IsSome(t.scte35_cmd) THEN ",SCTE35_CMD=" \o QuotedString_fmt(t.scte35_cmd.v) ELSE "")
    \o (IF IsSome(t.scte35_out) THEN ",SCTE35_OUT=" \o QuotedString_fmt(t.scte35_out.v) ELSE "")
    \o (IF IsSome(t.scte35_in) THEN ",SCTE35_IN=" \o QuotedString_fmt(t.scte35_in.v) ELSE "")
    \o (IF IsSome(t.end_on_next) THEN ",END_ON_NEXT=" \o Yes_fmt(t.end_on_next.v) ELSE "")
    \o ClientAttributes_fmt(t.client_attributes, BTreeMap_keys(DOMAIN t.client_attributes))

\* a quoted string holding a %Y-%m-%d date
QuotedDate_from_str(v) ==
    LET q == QuotedString_from_str(v)
    IN IF q.ok THEN NaiveDate_parse_from_str(q.v) ELSE InvalidInput

\* a variant of the loop below that passes over a pair it cannot read
RECURSIVE ExtXDateRange_loop_skipping(_, _)
ExtXDateRange_loop_skipping(attrs, acc) ==
    IF attrs = <<>> THEN Ok(acc)
    ELSE IF ~Head(attrs).ok THEN ExtXDateRange_loop_skipping(Tail(attrs), acc)
    ELSE LET key   == Head(attrs).v.key
             value == Head(attrs).v.value
             next  ==
                 CASE key = "ID" -> SetField(acc, "id", QuotedString_from_str(value))
                   [] key = "CLASS" -> SetField(acc, "class", QuotedString_from_str(value))
                   [] key = "START-DATE" -> SetField(acc, "start_date", QuotedDate_from_str(value))
                   [] key = "END-DATE" -> SetField(acc, "end_date", QuotedDate_from_str(value))
                   [] key = "DURATION" ->
                          SetField(acc, "duration", DecimalFloatingPoint_to_duration(value))
                   [] key = "PLANNED-DURATION" ->
                          SetField(acc, "planned_duration", DecimalFloatingPoint_to_duration(value))
                   [] key = "SCTE35-CMD" ->
                          SetField(acc, "scte35_cmd", QuotedString_from_str(value))
                   [] key = "SCTE35-OUT" ->
                          SetField(acc, "scte35_out", QuotedString_from_str(value))
                   [] key = "SCTE35-IN" -> SetField(acc, "scte35_in", QuotedString_from_str(value))
                   [] key = "END-ON-NEXT" -> SetField(acc, "end_on_next", Yes_from_str(value))
                   [] OTHER ->
                          IF StartsWith(key, "X-")
                          THEN Ok([acc EXCEPT !.client_attributes =
                                       BTreeMap_insert(@, AfterSplitAt(key, 2), value)])
                          ELSE Ok(acc)
         IN IF next.ok THEN ExtXDateRange_loop_skipping(Tail(attrs), next.v)
            ELSE ExtXDateRange_loop_skipping(Tail(attrs), acc)

RECURSIVE ExtXDateRange_loop(_, _)
ExtXDateRange_loop(attrs, acc) ==
    IF attrs = <<>> THEN Ok(acc)
    ELSE IF ~Head(attrs).ok THEN InvalidInput
    ELSE LET key   == Head(attrs).v.key
             value == Head(attrs).v.value
             next  ==
                 CASE key = "ID" -> SetField(acc, "id", QuotedString_from_str(value))
                   [] key = "CLASS" -> SetField(acc, "class", QuotedString_from_str(value))
                   [] key = "START-DATE" -> SetField(acc, "start_date", QuotedDate_from_str(value))
                   [] key = "END-DATE" -> SetField(acc, "end_date", QuotedDate_from_str(value))
                   [] key = "DURATION" ->
                          SetField(acc, "duration", DecimalFloatingPoint_to_duration(value))
                   [] key = "PLANNED-DURATION" ->
                          SetField(acc, "planned_duration", DecimalFloatingPoint_to_duration(value))
                   [] key = "SCTE35-CMD" ->
                          SetField(acc, "scte35_cmd", QuotedString_from_str(value))
                   [] key = "SCTE35-OUT" ->
                          SetField(acc, "scte35_out", QuotedString_from_str(value))
                   [] key = "SCTE35-IN" -> SetField(acc, "scte35_in", QuotedString_from_str(value))
                   [] key = "END-ON-NEXT" -> SetField(acc, "end_on_next", Yes_from_str(value))
                   [] OTHER ->
                          IF StartsWith(key, "X-")
                          THEN Ok([acc EXCEPT !.client_attributes =
                                       BTreeMap_insert(@, AfterSplitAt(key, 2), value)])
                          ELSE Ok(acc)
         IN IF next.ok THEN ExtXDateRange_loop(Tail(attrs), next.v) ELSE InvalidInput

\* a variant without the check of end_on_next against class
ExtXDateRange_from_str_unchecked(s) ==
    IF ~StartsWith(s, ExtXDateRange_PREFIX) THEN InvalidInput
    ELSE LET r == ExtXDateRange_loop(
                      AttributePairs_parse(AfterSplitAt(s, Len(ExtXDateRange_PREFIX))),
                      ExtXDateRange(NONE, NONE, NONE, NONE, NONE, NONE, NONE, NONE, NONE, NONE,
                                    BTreeMap_new))
         IN IF ~r.ok THEN InvalidInput
            ELSE IF ~IsSome(r.v.id) THEN InvalidInput
            ELSE IF ~IsSome(r.v.start_date) THEN InvalidInput
            ELSE Ok(ExtXDateRange(r.v.id.v, r.v.class, r.v.start_date.v, r.v.end_date,
                                  r.v.duration, r.v.planned_duration, r.v.scte35_cmd,
                                  r.v.scte35_out, r.v.scte35_in, r.v.end_on_next,
                                  r.v.client_attributes))

ExtXDateRange_from_str(s) ==
    IF ~StartsWith(s, ExtXDateRange_PREFIX) THEN InvalidInput
    ELSE LET r == ExtXDateRange_loop(
                      AttributePairs_parse(AfterSplitAt(s, Len(ExtXDateRange_PREFIX))),
                      ExtXDateRange(NONE, NONE, NONE, NONE, NONE, NONE, NONE, NONE, NONE, NONE,
                                    BTreeMap_new))
         IN IF ~r.ok THEN InvalidInput
            ELSE IF ~IsSome(r.v.id) THEN InvalidInput
            ELSE IF ~IsSome(r.v.start_date) THEN InvalidInput
            ELSE IF IsSome(r.v.end_on_next) /\ ~IsSome(r.v.class) THEN InvalidInput
            ELSE Ok(ExtXDateRange(r.v.id.v, r.v.class, r.v.start_date.v, r.v.end_date,
                                  r.v.duration, r.v.planned_duration, r.v.scte35_cmd,
                                  r.v.scte35_out, r.v.scte35_in, r.v.end_on_next,
                                  r.v.client_attributes))

----------------------------------------------------------------------------
(* The seven tags behind one name each: FromStr, Display, requires_version *)

Kinds ==
    {"ExtInf", "ExtXByteRange", "ExtXDiscontinuity", "ExtXKey", "ExtXMap",
     "ExtXProgramDateTime", "ExtXDateRange"}

Prefix(k) ==
    CASE k = "ExtInf" -> ExtInf_PREFIX
      [] k = "ExtXByteRange" -> ExtXByteRange_PREFIX
      [] k = "ExtXDiscontinuity" -> ExtXDiscontinuity_PREFIX
      [] k = "ExtXKey" -> ExtXKey_PREFIX
      [] k = "ExtXMap" -> ExtXMap_PREFIX
      [] k = "ExtXProgramDateTime" -> ExtXProgramDateTime_PREFIX
      [] k = "ExtXDateRange" -> ExtXDateRange_PREFIX

FromStr(k, s) ==
    CASE k = "ExtInf" -> ExtInf_from_str(s)
      [] k = "ExtXByteRange" -> ExtXByteRange_from_str(s)
      [] k = "ExtXDiscontinuity" -> ExtXDiscontinuity_from_str(s)
      [] k = "ExtXKey" -> ExtXKey_from_str(s)
      [] k = "ExtXMap" -> ExtXMap_from_str(s)
      [] k = "ExtXProgramDateTime" -> ExtXProgramDateTime_from_str(s)
      [] k = "ExtXDateRange" -> ExtXDateRange_from_str(s)

Display(k, t) ==
    CASE k = "ExtInf" -> ExtInf_fmt(t)
      [] k = "ExtXByteRange" -> ExtXByteRange_fmt(t)
      [] k = "ExtXDiscontinuity" -> ExtXDiscontinuity_fmt(t)
      [] k = "ExtXKey" -> ExtXKey_fmt(t)
      [] k = "ExtXMap" -> ExtXMap_fmt(t)
      [] k = "ExtXProgramDateTime" -> ExtXProgramDateTime_fmt(t)
      [] k = "ExtXDateRange" -> ExtXDateRange_fmt(t)

RequiresVersion(k, t) ==
    CASE k = "ExtInf" -> ExtInf_requires_version(t)
      [] k = "ExtXByteRange" -> ExtXByteRange_requires_version(t)
      [] k = "ExtXDiscontinuity" -> ExtXDiscontinuity_requires_version(t)
      [] k = "ExtXKey" -> ExtXKey_requires_version(t)
      [] k = "ExtXMap" -> ExtXMap_requires_version(t)
      [] k = "ExtXProgramDateTime" -> ExtXProgramDateTime_requires_version(t)
      [] k = "ExtXDateRange" -> ExtXDateRange_requires_version(t)

----------------------------------------------------------------------------
(* Bounds and the inputs the scenarios draw *)

\* the largest number of pairs in a line handed to a parser, per tag
MaxDateRangeAttrs == 4
MaxKeyAttrs == 3
MaxMapAttrs == 3

Opt(S) == {NONE} \cup {Some(x) : x \in S}

Durations ==
    {Duration(0, 0), Duration(5, 0), Duration(1, 234000000), Duration(100000000, 0),
     Duration(100000000, 1)}

Titles == {"foo", "Sample Title", "a,b", ""}

ByteRanges == {ByteRange(3, NONE), ByteRange(3, Some(5)), ByteRange(9, Some(2))}

QuotedStrings == {"foo", "a,b"}

DecryptionKeys ==
    {DecryptionKey(m, "foo", iv, kf, kfv) :
        m \in EncryptionMethods, iv \in Opt({<<0, 1, 2>>}), kf \in Opt({"baz"}),
        kfv \in Opt({"1/2"})}

DateTimes ==
    {DateTime(NaiveDate(2010, 2, 19), 14, 54, 23, 31000000, 480),
     DateTime(NaiveDate(2012, 2, 29), 0, 0, 0, 0, -90)}

ClientAttributes ==
    {BTreeMap_new,
     BTreeMap_insert(BTreeMap_new, "FOO", "1"),
     BTreeMap_insert(BTreeMap_insert(BTreeMap_new, "FOO", "\"a,b\""), "BAR", "0x0a")}

DateRanges ==
    {ExtXDateRange("x", class, NaiveDate(2010, 2, 19), end_date, duration, planned,
                   scte.cmd, scte.out, scte.in, eon, attrs) :
        class \in Opt({"c"}),
        end_date \in Opt({NaiveDate(2012, 2, 29)}),
        duration \in Opt({Duration(5, 0)}),
        planned \in Opt({Duration(1, 234000000)}),
        scte \in {[cmd |-> NONE, out |-> NONE, in |-> NONE],
                  [cmd |-> Some("0xFC"), out |-> NONE, in |-> NONE],
                  [cmd |-> NONE, out |-> Some("0xFC"), in |-> Some("0xFD")]},
        eon \in Opt({"YES"}),
        attrs \in ClientAttributes}

\* every value of a tag type the scenarios can build
Values(k) ==
    CASE k = "ExtInf" ->
             {ExtInf_new(d) : d \in Durations}
             \cup {ExtInf_with_title(d, t) : d \in Durations, t \in Titles}
      [] k = "ExtXByteRange" -> {ExtXByteRange_new(r) : r \in ByteRanges}
      [] k = "ExtXDiscontinuity" -> {ExtXDiscontinuity}
      [] k = "ExtXKey" -> {ExtXKey_new_without_key} \cup {ExtXKey_new(x) : x \in DecryptionKeys}
      [] k = "ExtXMap" ->
             {ExtXMap_new(u) : u \in QuotedStrings}
             \cup {ExtXMap_with_range(u, r) : u \in QuotedStrings, r \in ByteRanges}
      [] k = "ExtXProgramDateTime" -> {ExtXProgramDateTime_new(t) : t \in DateTimes}
      [] k = "ExtXDateRange" -> DateRanges

RECURSIVE Join(_)
Join(pieces) ==
    IF pieces = <<>> THEN ""
    ELSE IF Len(pieces) = 1 THEN pieces[1]
    ELSE pieces[1] \o "," \o Join(Tail(pieces))

\* the attribute lists of at most n pieces of a pool
Lists(pool, n) == {Join(f) : f \in UNION {[1..m -> pool] : m \in 0..n}}

DateRangePool ==
    {"ID=\"x\"", "START-DATE=\"2010-02-19\"", "CLASS=\"c\"", "END-ON-NEXT=YES",
     "X-FOO=\"a,b\"", "FOO=1", "bad"}

KeyPool ==
    {"METHOD=NONE", "METHOD=AES-128", "URI=\"foo\"", "IV=0x000102", "KEYFORMAT=\"baz\"",
     "KEYFORMATVERSIONS=\"1/2\"", "FOO=1", "bad"}

MapPool == {"URI=\"foo\"", "BYTERANGE=9@2", "BYTERANGE=x", "URI=foo", "FOO=\"a,b\"", "bad"}

\* what may follow the prefix in a line handed to the parser of a tag
Bodies(k) ==
    CASE k = "ExtInf" ->
             {"5", "1.234", "5,foo", "1.234,Sample Title", "5,", "5,a,b", "", ",foo", "abc",
              "1.2.3", "5,a\tb"}
      [] k = "ExtXByteRange" -> {"3", "3@5", "3@", "@5", "x", ""}
      [] k = "ExtXDiscontinuity" -> {"", "-SEQUENCE:1", " ", ":"}
      [] k = "ExtXKey" ->
             Lists(KeyPool, MaxKeyAttrs)
             \cup {"METHOD=NONE,", "METHOD=AES-128,URI=\"foo\",IV=0x000102,KEYFORMAT=\"baz\"",
                   "FOO=\"a,METHOD=NONE\",METHOD=AES-128,URI=\"foo\"", "FOO=\"METHOD=NONE"}
      [] k = "ExtXMap" -> Lists(MapPool, MaxMapAttrs) \cup {"URI=\"foo\",", "URI=\"foo"}
      [] k = "ExtXProgramDateTime" ->
             {"2010-02-19T14:54:23.031+08:00", "2010-02-19T14:54:23Z", "2010-02-19", ""}
      [] k = "ExtXDateRange" ->
             Lists(DateRangePool, MaxDateRangeAttrs)
             \cup {"ID=\"x\",START-DATE=\"2010-02-19\",",
                   "ID=\"x\",START-DATE=\"2010-02-19\",END-ON-NEXT=NO",
                   "END-ON-NEXT=NO,CLASS=\"c\",ID=\"x\",START-DATE=\"2010-02-19\"",
                   "ID=\"x\",START-DATE=\"2010-02-30\"",
                   "ID=\"x\",START-DATE=\"2010-02-19\",DURATION=1.5,PLANNED-DURATION=x"}

\* a body the parser of the tag accepts behind its prefix
GoodBody(k) ==
    CASE k = "ExtInf" -> "5,foo"
      [] k = "ExtXByteRange" -> "3@5"
      [] k = "ExtXDiscontinuity" -> ""
      [] k = "ExtXKey" -> "METHOD=NONE"
      [] k = "ExtXMap" -> "URI=\"foo\""
      [] k = "ExtXProgramDateTime" -> "2010-02-19T14:54:23.031+08:00"
      [] k = "ExtXDateRange" -> "ID=\"x\",START-DATE=\"2010-02-19\""

LowerCased(k) ==
    CASE k = "ExtInf" -> "#extinf:"
      [] k = "ExtXByteRange" -> "#ext-x-byterange:"
      [] k = "ExtXDiscontinuity" -> "#ext-x-discontinuity"
      [] k = "ExtXKey" -> "#ext-x-key:"
      [] k = "ExtXMap" -> "#ext-x-map:"
      [] k = "ExtXProgramDateTime" -> "#ext-x-program-date-time:"
      [] k = "ExtXDateRange" -> "#ext-x-daterange:"

\* beginnings of a line that are not the prefix of tag k
OtherHeads(k) ==
    {"", SubSeq(Prefix(k), 1, Len(Prefix(k)) - 1), LowerCased(k), " " \o Prefix(k)}
    \cup {Prefix(o) : o \in Kinds \ {k}}

\* the lines handed to the parser of tag k
Lines(k) ==
    {Prefix(k) \o b : b \in Bodies(k)} \cup {h \o GoodBody(k) : h \in OtherHeads(k)}

\* pairs with a name no tag knows, as appended to an accepted line
UnknownPairs ==
    {[key |-> "FOO", value |-> "1"], [key |-> "X-BAR", value |-> "\"a,b\""],
     [key |-> "X-FOO", value |-> "2"], [key |-> "METHODS", value |-> "NONE"]}

----------------------------------------------------------------------------
(* The scenarios: a caller builds a tag and renders it, or hands a line to *)
(* a parser; a rendered line is parsed back, a parsed tag is rendered or   *)
(* asked for its version, and an accepted line is parsed again with one    *)
(* more pair appended.                                                     *)

Init ==
    /\ pc = "idle"
    /\ kind = "ExtInf"
    /\ tag = NONE
    /\ line = ""
    /\ parsed = NONE
    /\ rendered = NONE
    /\ version = NONE
    /\ base = NONE

\* what a constructor leaves alone
Unbuilt == UNCHANGED <<line, parsed, rendered, version, base>>

New_ExtInf ==
    /\ pc = "idle"
    /\ \E d \in Durations : tag' = Some(ExtInf_new(d))
    /\ kind' = "ExtInf"
    /\ pc' = "built"
    /\ Unbuilt

WithTitle_ExtInf ==
    /\ pc = "idle"
    /\ \E d \in Durations, t \in Titles : tag' = Some(ExtInf_with_title(d, t))
    /\ kind' = "ExtInf"
    /\ pc' = "built"
    /\ Unbuilt

New_ExtXByteRange ==
    /\ pc = "idle"
    /\ \E r \in ByteRanges : tag' = Some(ExtXByteRange_new(r))
    /\ kind' = "ExtXByteRange"
    /\ pc' = "built"
    /\ Unbuilt

Unit_ExtXDiscontinuity ==
    /\ pc = "idle"
    /\ tag' = Some(ExtXDiscontinuity)
    /\ kind' = "ExtXDiscontinuity"
    /\ pc' = "built"
    /\ Unbuilt

New_ExtXKey ==
    /\ pc = "idle"
    /\ \E x \in DecryptionKeys : tag' = Some(ExtXKey_new(x))
    /\ kind' = "ExtXKey"
    /\ pc' = "built"
    /\ Unbuilt

NewWithoutKey_ExtXKey ==
    /\ pc = "idle"
    /\ tag' = Some(ExtXKey_new_without_key)
    /\ kind' = "ExtXKey"
    /\ pc' = "built"
    /\ Unbuilt

New_ExtXMap ==
    /\ pc = "idle"
    /\ \E u \in QuotedStrings : tag' = Some(ExtXMap_new(u))
    /\ kind' = "ExtXMap"
    /\ pc' = "built"
    /\ Unbuilt

WithRange_ExtXMap ==
    /\ pc = "idle"
    /\ \E u \in QuotedStrings, r \in ByteRanges : tag' = Some(ExtXMap_with_range(u, r))
    /\ kind' = "ExtXMap"
    /\ pc' = "built"
    /\ Unbuilt

New_ExtXProgramDateTime ==
    /\ pc = "idle"
    /\ \E t \in DateTimes : tag' = Some(ExtXProgramDateTime_new(t))
    /\ kind' = "ExtXProgramDateTime"
    /\ pc' = "built"
    /\ Unbuilt

\* ExtXDateRange has no constructor: its fields are pub and a caller writes
\* the struct literal
Literal_ExtXDateRange ==
    /\ pc = "idle"
    /\ \E t \in DateRanges : tag' = Some(t)
    /\ kind' = "ExtXDateRange"
    /\ pc' = "built"
    /\ Unbuilt

\* tag.requires_version()
Version ==
    /\ pc = "built"
    /\ pc' = "versioned"
    /\ version' = Some(RequiresVersion(kind, tag.v))
    /\ UNCHANGED <<kind, tag, line, parsed, rendered, base>>

\* tag.to_string()
Render ==
    /\ pc = "built"
    /\ pc' = "rendered"
    /\ line' = Display(kind, tag.v)
    /\ UNCHANGED <<kind, tag, parsed, rendered, version, base>>

\* the caller hands one line to the parser of a tag
Feed ==
    /\ pc = "idle"
    /\ \E k \in Kinds : \E l \in Lines(k) : kind' = k /\ line' = l
    /\ pc' = "fed"
    /\ UNCHANGED <<tag, parsed, rendered, version, base>>

\* line.parse::<Tag>()
Parse ==
    /\ pc \in {"rendered", "fed", "appended"}
    /\ pc' = "parsed"
    /\ parsed' = Some(FromStr(kind, line))
    /\ UNCHANGED <<kind, tag, line, rendered, version, base>>

\* parsed.to_string()
RenderParsed ==
    /\ pc = "parsed"
    /\ parsed.v.ok
    /\ pc' = "rerendered"
    /\ rendered' = Some(Display(kind, parsed.v.v))
    /\ UNCHANGED <<kind, tag, line, parsed, version, base>>

\* parsed.requires_version()
VersionOfParsed ==
    /\ pc = "parsed"
    /\ parsed.v.ok
    /\ pc' = "parsed_versioned"
    /\ version' = Some(RequiresVersion(kind, parsed.v.v))
    /\ UNCHANGED <<kind, tag, line, parsed, rendered, base>>

\* the caller appends one more pair to a line a parser accepted
AppendPair ==
    /\ pc = "parsed"
    /\ tag = NONE
    /\ base = NONE
    /\ parsed.v.ok
    /\ kind \in {"ExtXKey", "ExtXMap", "ExtXDateRange"}
    /\ \E a \in UnknownPairs :
           /\ base' = Some([line |-> line, result |-> parsed.v, pair |-> a])
           /\ line' = line \o "," \o a.key \o "=" \o a.value
    /\ pc' = "appended"
    /\ parsed' = NONE
    /\ UNCHANGED <<kind, tag, rendered, version>>

Next ==
    \/ New_ExtInf
    \/ WithTitle_ExtInf
    \/ New_ExtXByteRange
    \/ Unit_ExtXDiscontinuity
    \/ New_ExtXKey
    \/ NewWithoutKey_ExtXKey
    \/ New_ExtXMap
    \/ WithRange_ExtXMap
    \/ New_ExtXProgramDateTime
    \/ Literal_ExtXDateRange
    \/ Version
    \/ Render
    \/ Feed
    \/ Parse
    \/ RenderParsed
    \/ VersionOfParsed
    \/ AppendPair

Spec == Init /\ [][Next]_vars

----------------------------------------------------------------------------
(* Properties *)

\* the invariant of the date-range tag: end_on_next is set only with a class
DateRangeInvariant(t) == IsSome(t.end_on_next) => IsSome(t.class)

\* the lines the tests of media_segment.rs parse and expect Display to give back
TestLines ==
    {"#EXTINF:5", "#EXTINF:5,foo", "#EXTINF:1.234",
     "#EXT-X-BYTERANGE:3", "#EXT-X-BYTERANGE:3@5",
     "#EXT-X-DISCONTINUITY",
     "#EXT-X-KEY:METHOD=NONE",
     "#EXT-X-KEY:METHOD=AES-128,URI=\"foo\"",
     "#EXT-X-KEY:METHOD=AES-128,URI=\"foo\",IV=0x000102",
     "#EXT-X-KEY:METHOD=AES-128,URI=\"foo\",IV=0x000102,KEYFORMAT=\"baz\"",
     "#EXT-X-MAP:URI=\"foo\"", "#EXT-X-MAP:URI=\"foo\",BYTERANGE=9@2"}

\* C1: parsing the text rendered from a date-range tag that satisfies the
\* tag's invariant succeeds and gives the tag back: parse(render(d)) = d.
C1_DateRangeRoundTrip ==
    (pc = "parsed" /\ kind = "ExtXDateRange" /\ IsSome(tag) /\ DateRangeInvariant(tag.v))
        => parsed.v = Ok(tag.v)

\* C2: for every ExtInf, ExtXByteRange, ExtXDiscontinuity, ExtXKey and ExtXMap
\* built by a constructor, parse(render(t)) = t; and for the lines of the
\* tests, render(parse(line)) = line.
C2_RoundTrip ==
    /\ (/\ pc = "parsed"
        /\ IsSome(tag)
        /\ kind \in {"ExtInf", "ExtXByteRange", "ExtXDiscontinuity", "ExtXKey", "ExtXMap"})
           => parsed.v = Ok(tag.v)
    /\ (pc = "rerendered" /\ tag = NONE /\ base = NONE /\ line \in TestLines)
           => rendered.v = line

\* C3: no date-range tag, built by a caller or given by a parser, has
\* end_on_next set without a class.
C3_EndOnNextImpliesClass ==
    /\ (kind = "ExtXDateRange" /\ IsSome(tag)) => DateRangeInvariant(tag.v)
    /\ (kind = "ExtXDateRange" /\ IsSome(parsed) /\ parsed.v.ok)
           => DateRangeInvariant(parsed.v.v)

\* the pairs of the line at hand, behind the prefix of its tag
LineAttrs == AttributePairs_parse(AfterSplitAt(line, Len(Prefix(kind))))

\* the pairs hold a well-formed pair of this name
HasAttr(attrs, name) == \E i \in 1..Len(attrs) : attrs[i].ok /\ attrs[i].v.key = name

\* pairs of the date-range tag with values that decode
ValidDateRangePairs ==
    {[key |-> "ID", value |-> "\"x\""],
     [key |-> "START-DATE", value |-> "\"2010-02-19\""],
     [key |-> "CLASS", value |-> "\"c\""],
     [key |-> "END-ON-NEXT", value |-> "YES"],
     [key |-> "X-FOO", value |-> "\"a,b\""],
     [key |-> "FOO", value |-> "1"]}

\* C4: a date-range line with an END-ON-NEXT attribute and no CLASS attribute
\* is rejected with InvalidInput whatever else it holds; a line of valid pairs
\* that holds ID, START-DATE, CLASS and END-ON-NEXT is accepted in every order
\* of its pairs.
C4_EndOnNextNeedsClass ==
    (pc = "parsed" /\ kind = "ExtXDateRange" /\ tag = NONE /\ StartsWith(line, ExtXDateRange_PREFIX))
        => LET attrs == LineAttrs
           IN /\ (HasAttr(attrs, "END-ON-NEXT") /\ ~HasAttr(attrs, "CLASS"))
                     => parsed.v = InvalidInput
              /\ (/\ \A i \in 1..Len(attrs) : attrs[i].ok /\ attrs[i].v \in ValidDateRangePairs
                  /\ \A name \in {"ID", "START-DATE", "CLASS", "END-ON-NEXT"} :
                         HasAttr(attrs, name))
                     => /\ parsed.v.ok
                        /\ parsed.v.v.end_on_next = Some("YES")
                        /\ parsed.v.v.class = Some("c")

C4_Witness ==
    /\ pc = "parsed"
    /\ kind = "ExtXDateRange"
    /\ line = "#EXT-X-DATERANGE:END-ON-NEXT=YES,ID=\"x\",START-DATE=\"2010-02-19\",CLASS=\"c\""
    /\ parsed.v.ok
    /\ parsed.v.v.end_on_next = Some("YES")

ForbiddenWithNone == {"URI", "IV", "KEYFORMAT", "KEYFORMATVERSIONS"}

\* C5: a key line with a METHOD=NONE pair at any position is rejected with
\* InvalidInput when a pair is named URI, IV, KEYFORMAT or KEYFORMATVERSIONS
\* or a pair is malformed, and gives key = None otherwise; a line without that
\* pair never gives key = None; the tag without a key renders as
\* #EXT-X-KEY:METHOD=NONE.
C5_MethodNone ==
    /\ (pc = "parsed" /\ kind = "ExtXKey" /\ StartsWith(line, ExtXKey_PREFIX))
           => LET attrs == LineAttrs
              IN IF \E i \in 1..Len(attrs) : attrs[i] = Ok([key |-> "METHOD", value |-> "NONE"])
                 THEN IF \E i \in 1..Len(attrs) :
                            ~attrs[i].ok \/ attrs[i].v.key \in ForbiddenWithNone
                      THEN parsed.v = InvalidInput
                      ELSE parsed.v = Ok([key |-> NONE])
                 ELSE ~(parsed.v.ok /\ parsed.v.v.key = NONE)
    /\ (pc = "rendered" /\ kind = "ExtXKey" /\ tag.v.key = NONE)
           => line = "#EXT-X-KEY:METHOD=NONE"

C5_Witness ==
    /\ pc = "parsed"
    /\ kind = "ExtXKey"
    /\ line = "#EXT-X-KEY:FOO=1,METHOD=NONE"
    /\ parsed.v = Ok([key |-> NONE])

\* C6: the parser of each of the seven tags returns InvalidInput, and no tag,
\* for every line that does not start with the tag's prefix.
C6_PrefixRejection ==
    (/\ pc = "parsed"
     /\ ~(/\ Len(line) >= Len(Prefix(kind))
          /\ SubSeq(line, 1, Len(Prefix(kind))) = Prefix(kind)))
        => parsed.v = InvalidInput

C6_Witness ==
    /\ pc = "parsed"
    /\ kind = "ExtXMap"
    /\ line = "#ext-x-map:URI=\"foo\""
    /\ parsed.v = InvalidInput

\* C7: an accepted line of ExtXMap, ExtXDateRange or ExtXKey with METHOD=NONE
\* with a pair of an unrecognised name appended is still accepted and gives
\* the same values; for ExtXDateRange a name that starts with X- only goes
\* into client_attributes.
C7_UnknownAttributeTolerance ==
    (/\ pc = "parsed"
     /\ IsSome(base)
     /\ (kind = "ExtXKey" => base.v.result.v.key = NONE))
        => /\ parsed.v.ok
           /\ IF kind = "ExtXDateRange" /\ StartsWith(base.v.pair.key, "X-")
              THEN parsed.v.v =
                       [base.v.result.v EXCEPT !.client_attributes =
                           BTreeMap_insert(@, AfterSplitAt(base.v.pair.key, 2),
                                           base.v.pair.value)]
              ELSE parsed.v = base.v.result

C7_Witness ==
    /\ pc = "parsed"
    /\ IsSome(base)
    /\ kind = "ExtXDateRange"
    /\ base.v.pair.key = "X-BAR"
    /\ parsed.v.ok
    /\ parsed.v.v.client_attributes # base.v.result.v.client_attributes

\* C8: ExtInf requires V1 exactly when its duration is a whole number of
\* seconds and V3 otherwise, with or without a title; #EXTINF:5 is 5 s, no
\* title, V1, and #EXTINF:1.234,Sample Title is 1.234 s, that title, V3.
C8_ExtInfVersion ==
    /\ (pc = "versioned" /\ kind = "ExtInf")
           => version.v = (IF tag.v.duration.nanos = 0 THEN V1 ELSE V3)
    /\ (pc = "parsed_versioned" /\ kind = "ExtInf")
           => /\ version.v = (IF parsed.v.v.duration.nanos = 0 THEN V1 ELSE V3)
              /\ line = "#EXTINF:5"
                     => /\ parsed.v.v = [duration |-> Duration(5, 0), title |-> NONE]
                        /\ version.v = V1
              /\ line = "#EXTINF:1.234,Sample Title"
                     => /\ parsed.v.v = [duration |-> Duration(1, 234000000),
                                         title |-> Some("Sample Title")]
                        /\ version.v = V3

C8_Witness ==
    /\ pc = "parsed_versioned"
    /\ kind = "ExtInf"
    /\ line = "#EXTINF:1.234,Sample Title"
    /\ version.v = V3

\* b is a with more of its optional fields populated
MapExtends(a, b) == DOMAIN a \subseteq DOMAIN b /\ \A k \in DOMAIN a : a[k] = b[k]

OptExtends(a, b) == a = b \/ (a = NONE /\ IsSome(b))

Extends(k, a, b) ==
    CASE k = "ExtInf" -> a.duration = b.duration /\ OptExtends(a.title, b.title)
      [] k = "ExtXKey" ->
             \/ a.key = NONE
             \/ /\ IsSome(b.key)
                /\ a.key.v.method = b.key.v.method
                /\ a.key.v.uri = b.key.v.uri
                /\ OptExtends(a.key.v.iv, b.key.v.iv)
                /\ OptExtends(a.key.v.key_format, b.key.v.key_format)
                /\ OptExtends(a.key.v.key_format_versions, b.key.v.key_format_versions)
      [] k = "ExtXMap" -> a.uri = b.uri /\ OptExtends(a.range, b.range)
      [] k = "ExtXDateRange" ->
             /\ a.id = b.id
             /\ a.start_date = b.start_date
             /\ \A f \in {"class", "end_date", "duration", "planned_duration", "scte35_cmd",
                          "scte35_out", "scte35_in", "end_on_next"} : OptExtends(a[f], b[f])
             /\ MapExtends(a.client_attributes, b.client_attributes)
      [] OTHER -> a = b

\* C9: populating more optional fields of a tag never lowers its version.
\* ExtXKey requires V1 without a key and with a key V1, V2 once IV is present
\* and V5 once KEYFORMAT or KEYFORMATVERSIONS is; ExtXByteRange requires V4,
\* ExtXMap V6, ExtXDiscontinuity, ExtXProgramDateTime and ExtXDateRange V1.
C9_VersionMonotone ==
    pc = "versioned"
        => /\ \A t \in Values(kind) :
                  Extends(kind, tag.v, t) => RequiresVersion(kind, t) >= version.v
           /\ kind = "ExtXKey"
                  => version.v =
                         (IF tag.v.key = NONE THEN 1
                          ELSE IF IsSome(tag.v.key.v.key_format)
                                  \/ IsSome(tag.v.key.v.key_format_versions) THEN 5
                          ELSE IF IsSome(tag.v.key.v.iv) THEN 2
                          ELSE 1)
           /\ kind = "ExtXByteRange" => version.v = 4
           /\ kind = "ExtXMap" => version.v = 6
           /\ kind \in {"ExtXDiscontinuity", "ExtXProgramDateTime", "ExtXDateRange"}
                  => version.v = 1

C9_Witness ==
    /\ pc = "versioned"
    /\ kind = "ExtXKey"
    /\ IsSome(tag.v.key)
    /\ IsSome(tag.v.key.v.iv)
    /\ tag.v.key.v.key_format = NONE
    /\ tag.v.key.v.key_format_versions = NONE
    /\ version.v = 2

\* C10: the parser of ExtXDiscontinuity accepts a line exactly when the line
\* is #EXT-X-DISCONTINUITY, and rejects every other line with InvalidInput.
C10_DiscontinuityExact ==
    (pc = "parsed" /\ kind = "ExtXDiscontinuity")
        => IF line = "#EXT-X-DISCONTINUITY"
           THEN parsed.v = Ok(ExtXDiscontinuity)
           ELSE parsed.v = InvalidInput

C10_Witness ==
    /\ pc = "parsed"
    /\ kind = "ExtXDiscontinuity"
    /\ line = "#EXT-X-DISCONTINUITY-SEQUENCE:1"
    /\ parsed.v = InvalidInput

\* the characters M3u8String::new refuses in the lines at hand
ControlChars == {"\t", "\r", "\n"}

\* C11: the parser of ExtInf splits the text behind #EXTINF: at its first
\* comma only. The part before it must be a decimal duration, or the line is
\* rejected with InvalidInput; the part behind it, further commas included,
\* is the title as it stands; without a comma the title is None, and with the
\* comma as the last character the title is present and empty.
C11_ExtInfFirstComma ==
    (pc = "parsed" /\ kind = "ExtInf" /\ StartsWith(line, ExtInf_PREFIX))
        => LET body   == SubSeq(line, Len(ExtInf_PREFIX) + 1, Len(line))
               commas == {i \in 1..Len(body) : Ch(body, i) = ","}
               first  == IF commas = {} THEN Len(body) + 1
                         ELSE CHOOSE i \in commas : \A j \in commas : i <= j
               left   == SubSeq(body, 1, first - 1)
               right  == SubSeq(body, first + 1, Len(body))
               secs   == DecimalFloatingPoint_to_duration(left)
           IN /\ ~secs.ok => parsed.v = InvalidInput
              /\ (secs.ok /\ commas = {})
                     => parsed.v = Ok([duration |-> secs.v, title |-> NONE])
              /\ (secs.ok /\ commas # {} /\ parsed.v.ok)
                     => parsed.v.v = [duration |-> secs.v, title |-> Some(right)]
              /\ (secs.ok /\ commas # {}
                          /\ \A i \in 1..Len(right) : Ch(right, i) \notin ControlChars)
                     => parsed.v.ok
              /\ line = "#EXTINF:5,"
                     => parsed.v = Ok([duration |-> Duration(5, 0), title |-> Some("")])
              /\ line = "#EXTINF:5,a,b"
                     => parsed.v = Ok([duration |-> Duration(5, 0), title |-> Some("a,b")])

C11_Witness ==
    /\ pc = "parsed"
    /\ kind = "ExtInf"
    /\ line = "#EXTINF:5,a,b"
    /\ parsed.v.ok
    /\ parsed.v.v.title = Some("a,b")

\* the names a tag requires after the loop over its pairs
RequiredAttrs(k) ==
    CASE k = "ExtXMap" -> {"URI"}
      [] k = "ExtXDateRange" -> {"ID", "START-DATE"}
      [] OTHER -> {}

\* the value of a recognised attribute of tag k decodes; a name the tag does
\* not recognise has no value to decode
Decodes(k, key, value) ==
    CASE k = "ExtXMap" /\ key = "URI" -> QuotedString_from_str(value).ok
      [] k = "ExtXMap" /\ key = "BYTERANGE" -> ByteRange_from_str(value).ok
      [] k = "ExtXDateRange" /\ key \in {"ID", "CLASS", "SCTE35-CMD", "SCTE35-OUT", "SCTE35-IN"} ->
             QuotedString_from_str(value).ok
      [] k = "ExtXDateRange" /\ key \in {"START-DATE", "END-DATE"} ->
             /\ QuotedString_from_str(value).ok
             /\ NaiveDate_parse_from_str(QuotedString_from_str(value).v).ok
      [] k = "ExtXDateRange" /\ key \in {"DURATION", "PLANNED-DURATION"} ->
             DecimalFloatingPoint_to_duration(value).ok
      [] k = "ExtXDateRange" /\ key = "END-ON-NEXT" -> Yes_from_str(value).ok
      [] OTHER -> TRUE

\* C12: the parsers of ExtXMap and ExtXDateRange return InvalidInput, and no
\* tag, for a line that lacks a required attribute (URI; ID or START-DATE),
\* holds a malformed pair, or holds a recognised attribute whose value does
\* not decode, wherever in the line that is and whatever stands before it; a
\* tag they do return holds every required field.
C12_NoPartialConstruction ==
    (/\ pc = "parsed"
     /\ kind \in {"ExtXMap", "ExtXDateRange"}
     /\ StartsWith(line, Prefix(kind)))
        => LET attrs == LineAttrs
           IN /\ (\E name \in RequiredAttrs(kind) : ~HasAttr(attrs, name))
                     => parsed.v = InvalidInput
              /\ (\E i \in 1..Len(attrs) : ~attrs[i].ok) => parsed.v = InvalidInput
              /\ (\E i \in 1..Len(attrs) :
                      attrs[i].ok /\ ~Decodes(kind, attrs[i].v.key, attrs[i].v.value))
                     => parsed.v = InvalidInput
              /\ (parsed.v.ok /\ kind = "ExtXMap") => parsed.v.v.uri \in QuotedStrings
              /\ (parsed.v.ok /\ kind = "ExtXDateRange")
                     => /\ parsed.v.v.id \in QuotedStrings \cup {"x"}
                        /\ parsed.v.v.start_date = NaiveDate(2010, 2, 19)

C12_Witness ==
    /\ pc = "parsed"
    /\ kind = "ExtXDateRange"
    /\ line = "#EXT-X-DATERANGE:ID=\"x\",START-DATE=\"2010-02-19\",DURATION=1.5,PLANNED-DURATION=x"
    /\ parsed.v = InvalidInput

====
